---- MODULE Spec2Model ----
(***************************************************************************)
(* State-machine model of the Socket.IO session core of app.py: the two    *)
(* in-memory presence maps, the room membership table driven through       *)
(* join_room / leave_room, the messages table, and the events each handler *)
(* emits.                                                                  *)
(*                                                                         *)
(* Strings are sequences of code points, so that str.strip(), truthiness   *)
(* and sorted() are computed rather than assumed.  An event payload is a   *)
(* record of optional fields: None (<<>>) is a key the client left out,    *)
(* Some(v) (<<v>>) a key carrying v; data.get(k) is then data.k.           *)
(***************************************************************************)
EXTENDS Integers, Sequences, FiniteSets, TLC

\* Number of session ids the transport hands out in one run.
NumConns == 2
\* Number of rows the messages table holds in one run.
MaxMsgs == 2
\* longest username of the direct-room requests
MaxNameLen == 2
\* most rows in a messages table that the paging route reads
MaxRows == 3
\* how far the tables read by the chat page lie below and above its limit
MaxOver == 2

----------------------------------------------------------------------------
\* Python values

None == <<>>
Some(v) == <<v>>
Opt(S) == {None} \cup {Some(v) : v \in S}

\* Faulty variant: the test is `x is None`, an empty string passes
Truthy_not_none(o) == o # None

\* `not x` is false exactly for a present, non-empty string
Truthy(o) == o # None /\ o[1] # <<>>

\* data.get("text") or ""
OrEmpty(o) == IF Truthy(o) THEN o[1] ELSE <<>>

\* bool(data.get("typing", False)) for a boolean or missing flag
BoolOf(o) == IF o = None THEN FALSE ELSE o[1]

\* the ASCII code points str.isspace() accepts
Whitespace == {9, 10, 11, 12, 13, 28, 29, 30, 31, 32}

RECURSIVE lstrip(_)
lstrip(s) == IF s # <<>> /\ Head(s) \in Whitespace THEN lstrip(Tail(s)) ELSE s

RECURSIVE rstrip(_)
rstrip(s) ==
    IF s # <<>> /\ s[Len(s)] \in Whitespace
    THEN rstrip(SubSeq(s, 1, Len(s) - 1))
    ELSE s

\* str.strip()
strip(s) == rstrip(lstrip(s))

\* s < t on Python strings: lexicographic by code point
RECURSIVE StrLess(_, _)
StrLess(s, t) ==
    IF t = <<>> THEN FALSE
    ELSE IF s = <<>> THEN TRUE
    ELSE IF Head(s) # Head(t) THEN Head(s) < Head(t)
    ELSE StrLess(Tail(s), Tail(t))

\* sorted(list(keys)): the keys in ascending order
RECURSIVE sorted(_)
sorted(S) ==
    IF S = {} THEN <<>>
    ELSE LET m == CHOOSE x \in S : \A y \in S \ {x} : StrLess(x, y)
         IN  <<m>> \o sorted(S \ {m})

----------------------------------------------------------------------------
\* Inputs the clients send

\* "a", "b" and the one-blank string " "
NameA == <<97>>
NameB == <<98>>
Blank == <<32>>

\* "r", "s"
RoomR == <<114>>
RoomS == <<115>>

\* " h " (strips to "h")
TextPadded == <<32, 104, 32>>

UsernameInputs == Opt({<<>>, Blank, NameA, NameB})
RoomInputs     == Opt({<<>>, RoomR, RoomS})
SenderInputs   == Opt({<<>>, NameA})
TextInputs     == Opt({<<>>, Blank, TextPadded})
TypingInputs   == {None, Some(TRUE)}

\* a field the client left out or sent as the empty string
Absent(o) == o \in {None, Some(<<>>)}

\* the fields of a payload that are missing or empty
Falsy(d) == {k \in DOMAIN d : ~Truthy(d[k])}

\* payloads of join and leave: at most one required field missing or empty
RoomPayloads ==
    {d \in [room : RoomInputs, username : SenderInputs] : Cardinality(Falsy(d)) <= 1}

\* payloads of send_message: at most one required field missing or empty
SendPayloads ==
    {d \in [room : RoomInputs, text : TextInputs, sender : SenderInputs] :
        Cardinality(Falsy(d)) <= 1}

\* payloads of typing: at most one required field missing or empty
TypingPayloads ==
    {d \in [room : RoomInputs, sender : SenderInputs, typing : TypingInputs] :
        Cardinality(Falsy([room |-> d.room, sender |-> d.sender])) <= 1}

\* " joined the room."
JoinedSuffix ==
    <<32, 106, 111, 105, 110, 101, 100, 32, 116, 104, 101, 32, 114, 111, 111, 109, 46>>
\* " left the room."
LeftSuffix ==
    <<32, 108, 101, 102, 116, 32, 116, 104, 101, 32, 114, 111, 111, 109, 46>>

Sids == 1..NumConns

\* usernames of the direct-room requests: "_", "a", "b" and their combinations
DmAlphabet == {95, 97, 98}

DmNames == UNION {[1..n -> DmAlphabet] : n \in 1..MaxNameLen}

\* a room no message was ever sent to
RoomU == <<117>>
\* "h"
TextH == <<104>>
\* "x": not a timestamp
NotATime == <<120>>
\* the timestamps of the tables the paging route reads: two ticks, so that
\* rows share a timestamp
Times == {0, 1}

----------------------------------------------------------------------------
VARIABLES
    nextSid,          \* the next session id the transport allocates
    connected,        \* session ids whose transport is open
    ACTIVE_USERS,     \* sid -> username
    USERNAME_TO_SID,  \* username -> sid (last seen)
    rooms,            \* room name -> set of sids (the server's room table)
    messages,         \* rows of the messages table, in insertion order
    emitted,          \* events emitted by the handler that ran last, in order
    last,             \* the event handled last: handler, sid, payload, outcome
    registrar,        \* username -> the sid whose join_app named it last (0: none)
    response,         \* the response to the HTTP request served last
    tasks,            \* sid -> the handler in flight for it, statement by statement
    running,          \* the sid whose handler holds the processor (0: none)
    inbox,            \* sid -> the ids of the new_message events it received, in order
    racing            \* pairs <<m1, m2>> of ids: m2 was committed while the handler
                      \* of m1 had committed and not yet emitted

vars == <<nextSid, connected, ACTIVE_USERS, USERNAME_TO_SID, rooms, messages,
          emitted, last, registrar, response, tasks, running, inbox, racing>>

\* what the handlers that run in one piece leave alone
others == <<response, tasks, running, inbox, racing>>

\* a handler in flight: the statement it executes next (named by its line)
\* and its local variables username and users / msg
Task(op, pc, data, username, local) ==
    [op |-> op, pc |-> pc, data |-> data, username |-> username, local |-> local]

Idle == Task("idle", "idle", [none |-> None], None, None)

\* no HTTP request served yet
NoResponse == [route |-> "none"]

NoData == [none |-> None]

\* The record of a handled event.  saved: None when the store was not called,
\* Some(TRUE) on commit, Some(FALSE) when the commit raised.  username: what
\* on_disconnect popped.  left: the rooms the session was taken out of.
\* again: a join that repeats the join the same session sent immediately before.
Handled(op, sid, data) ==
    [op |-> op, sid |-> sid, data |-> data, saved |-> None, username |-> None,
     left |-> {},
     again |-> (op = "join" /\ last.op = op /\ last.sid = sid /\ last.data = data)]

\* one emitted event and the connections it is delivered to
Emission(event, payload, to) == [event |-> event, payload |-> payload, to |-> to]

----------------------------------------------------------------------------
\* The server's room table (join_room, leave_room, emit(..., room=...))

members_of(rs, room) == IF room \in DOMAIN rs THEN rs[room] ELSE {}

\* the server drops a closed session from every room it was in
leave_all(rs, sid) ==
    [r \in {x \in DOMAIN rs : rs[x] \ {sid} # {}} |-> rs[r] \ {sid}]

\* Faulty variant: a second join of the same room takes the session out again
join_room_toggle(rs, room, sid) ==
    IF sid \in members_of(rs, room)
    THEN [r \in {x \in DOMAIN rs : rs[x] \ (IF x = room THEN {sid} ELSE {}) # {}} |->
            IF r = room THEN rs[r] \ {sid} ELSE rs[r]]
    ELSE [r \in DOMAIN rs \cup {room} |->
            IF r = room THEN members_of(rs, room) \cup {sid} ELSE rs[r]]

join_room(rs, room, sid) ==
    [r \in DOMAIN rs \cup {room} |->
        IF r = room THEN members_of(rs, room) \cup {sid} ELSE rs[r]]

\* Faulty variant: leave takes the session out of every room, not only the named one
leave_room_everywhere(rs, room, sid) == leave_all(rs, sid)

\* a room whose last member leaves is dropped from the table
leave_room(rs, room, sid) ==
    [r \in {x \in DOMAIN rs : rs[x] \ (IF x = room THEN {sid} ELSE {}) # {}} |->
        IF r = room THEN rs[r] \ {sid} ELSE rs[r]]

\* Faulty variant: include_self is left at its default, the sender gets its own echo
typing_recipients_with_self(rs, room, sid) == members_of(rs, room)

\* emit(..., room=room, include_self=False) skips the sender's own session
typing_recipients(rs, room, sid) == members_of(rs, room) \ {sid}

----------------------------------------------------------------------------
\* Presence

broadcast_user_list(u2s, conns) ==
    Emission("user_list", [users |-> sorted(DOMAIN u2s)], conns)

\* d[k] = v
Put(d, k, v) == [x \in DOMAIN d \cup {k} |-> IF x = k THEN v ELSE d[x]]

\* d.pop(k, None): the dict without k
Pop(d, k) == [x \in DOMAIN d \ {k} |-> d[x]]

\* Faulty variant: the forward entry is read with get() and stays in the dict
unregister_forward_kept(au, sid) == au

\* on_disconnect: the forward entry of the closed session goes
unregister_forward(au, sid) == Pop(au, sid)

\* d.get(k) / the value d.pop(k, None) returns
Get(d, k) == IF k \in DOMAIN d THEN Some(d[k]) ELSE None

\* Faulty variant: the reverse entry goes whichever session it names
unregister_reverse_always(u2s, username, sid) ==
    IF Truthy(username) THEN Pop(u2s, username[1]) ELSE u2s

\* on_disconnect: the reverse entry goes only while it still names this sid
unregister_reverse(u2s, username, sid) ==
    IF Truthy(username) /\ Get(u2s, username[1]) = Some(sid)
    THEN Pop(u2s, username[1])
    ELSE u2s

----------------------------------------------------------------------------
\* The messages table

\* the primary key the store assigns on insert
next_id(msgs) == IF msgs = <<>> THEN 1 ELSE msgs[Len(msgs)].id + 1

\* a row of the messages table as the socket handlers write it (the
\* timestamp column is in Row)
Message(id, room, sender, text) ==
    [id |-> id, room |-> room, sender |-> sender, text |-> text]

\* db.session.add + commit; a failed commit is rolled back
db_commit(msgs, msg, ok) == IF ok THEN Append(msgs, msg) ELSE msgs

\* Faulty variant: the text is taken as sent, without strip()
send_text_unstripped(data) == OrEmpty(data.text)

\* text = (data.get("text") or "").strip()
send_text(data) == strip(OrEmpty(data.text))

\* Faulty variant: the emit loses its room argument and goes to every room's members
send_emissions_unscoped(ok, msg, rs) ==
    IF ok
    THEN <<Emission("new_message", msg, UNION {rs[r] : r \in DOMAIN rs})>>
    ELSE <<>>

\* Faulty variant: the except branch does not return, the unsaved message is emitted
send_emissions_unsaved(ok, msg, rs) ==
    <<Emission("new_message", msg, members_of(rs, msg.room))>>

\* the events on_send_message emits after the save was attempted
send_emissions(ok, msg, rs) ==
    IF ok
    THEN <<Emission("new_message", msg, members_of(rs, msg.room))>>
    ELSE <<>>

----------------------------------------------------------------------------
\* HTTP routes

\* sorted([me, other])
sorted_pair(me, other) == IF StrLess(other, me) THEN <<other, me>> ELSE <<me, other>>

\* "dm_"
DmPrefix == <<100, 109, 95>>

\* Faulty variant: the two names are not sorted
direct_room_name_unsorted(me, other) == DmPrefix \o me \o <<95>> \o other

\* f"dm_{pair[0]}_{pair[1]}"
direct_room_name(me, other) ==
    LET pair == sorted_pair(me, other) IN
    DmPrefix \o pair[1] \o <<95>> \o pair[2]

\* a row of the messages table with its timestamp column
Row(id, room, sender, text, timestamp) ==
    [id |-> id, room |-> room, sender |-> sender, text |-> text,
     timestamp |-> timestamp]

\* str(n) of a natural number
RECURSIVE str(_)
str(n) == IF n < 10 THEN <<48 + n>> ELSE str(n \div 10) \o <<48 + (n % 10)>>

\* timestamps are whole ticks; their text form is the decimal numeral
isoformat(t) == str(t)

IsNumeral(s) == s # <<>> /\ \A i \in DOMAIN s : s[i] \in 48..57

\* int(s) of a numeral
RECURSIVE int(_)
int(s) ==
    IF s = <<>> THEN 0
    ELSE 10 * int(SubSeq(s, 1, Len(s) - 1)) + (s[Len(s)] - 48)

\* datetime.fromisoformat(s): None stands for the ValueError it raises
fromisoformat(s) == IF IsNumeral(s) THEN Some(int(s)) ELSE None

to_dict(m) == [m EXCEPT !.timestamp = isoformat(m.timestamp)]

\* the ways two timestamp-ordered sequences merge into one; rows with equal
\* timestamps come in any order
RECURSIVE merge(_, _)
merge(p, q) ==
    IF p = <<>> THEN {q}
    ELSE IF q = <<>> THEN {p}
    ELSE LET m == (Len(p) + 1) \div 2
             x == p[m]
         IN UNION {{a \o <<x>> \o b :
                        a \in merge(SubSeq(p, 1, m - 1), SubSeq(q, 1, k)),
                        b \in merge(SubSeq(p, m + 1, Len(p)), SubSeq(q, k + 1, Len(q)))} :
                   k \in Cardinality({j \in DOMAIN q : q[j].timestamp < x.timestamp})
                         .. Cardinality({j \in DOMAIN q : q[j].timestamp <= x.timestamp})}

\* ORDER BY timestamp ASC: every order the database may return the rows in
RECURSIVE order_by_timestamp_asc(_)
order_by_timestamp_asc(rows) ==
    IF Len(rows) <= 1 THEN {rows}
    ELSE LET m == Len(rows) \div 2 IN
         UNION {merge(p, q) :
                    p \in order_by_timestamp_asc(SubSeq(rows, 1, m)),
                    q \in order_by_timestamp_asc(SubSeq(rows, m + 1, Len(rows)))}

reversed(p) == [i \in 1..Len(p) |-> p[Len(p) + 1 - i]]

\* ORDER BY timestamp DESC
order_by_timestamp_desc(rows) == {reversed(p) : p \in order_by_timestamp_asc(rows)}

\* LIMIT n
limit(p, n) == IF n < Len(p) THEN SubSeq(p, 1, n) ELSE p

\* the rows of msgs that pass keep, in table order
RECURSIVE filter(_, _)
filter(msgs, keep) ==
    IF msgs = <<>> THEN <<>>
    ELSE IF Len(msgs) = 1 THEN (IF msgs[1].id \in keep THEN msgs ELSE <<>>)
    ELSE LET m == Len(msgs) \div 2 IN
         filter(SubSeq(msgs, 1, m), keep) \o filter(SubSeq(msgs, m + 1, Len(msgs)), keep)

\* filter_by(room=room)
filter_by_room(msgs, room) ==
    filter(msgs, {msgs[i].id : i \in {j \in DOMAIN msgs : msgs[j].room = room}})

\* the limit the paging route uses when the request names none
DefaultLimit == 50

\* Faulty variant: the newest-first query result is returned as it is
page_of_unreversed(newest_first) == [i \in DOMAIN newest_first |-> to_dict(newest_first[i])]

\* list(reversed([m.to_dict() for m in msgs]))
page_of(newest_first) ==
    reversed([i \in DOMAIN newest_first |-> to_dict(newest_first[i])])

\* GET /api/messages/<room>: the pages the route may answer with
api_messages(msgs, room, lim, before) ==
    LET n == IF lim = None THEN DefaultLimit ELSE int(lim[1])
        before_dt == IF Truthy(before) THEN fromisoformat(before[1]) ELSE None
        q == filter_by_room(msgs, room)
        q2 == IF before_dt = None THEN q
              ELSE filter(q, {q[i].id : i \in {j \in DOMAIN q :
                                                  q[j].timestamp < before_dt[1]}})
    IN {page_of(limit(p, n)) : p \in order_by_timestamp_desc(q2)}

\* the limit of the chat page
ChatLimit == 500

\* GET /chat/<room>: the message lists the page may be rendered with
chat_room(msgs, room) ==
    {limit(p, ChatLimit) : p \in order_by_timestamp_asc(filter_by_room(msgs, room))}

\* messages tables the paging route may find in the database file: up to
\* MaxRows rows of the rooms "r" and "s", timestamps in any order
PageTables ==
    UNION {{[i \in 1..n |-> Row(i, f[i].room, NameA, TextH, f[i].timestamp)] :
                f \in [1..n -> [room : {RoomR, RoomS}, timestamp : Times]]} :
           n \in 0..MaxRows}

\* the query parameters limit and before
LimitInputs == Opt({str(n) : n \in 0..2})

BeforeInputs == Opt({<<>>, NotATime} \cup {isoformat(t) : t \in Times \cup {2}})

\* messages tables the chat page may find: n rows stamped in insertion
\* order, all of room "r" but some of the newest MaxOver + 1
ChatTables ==
    {[i \in 1..n |-> Row(i, IF i \in {n - d : d \in away} THEN RoomS ELSE RoomR,
                          NameA, TextH, i)] :
        n \in (ChatLimit - MaxOver)..(ChatLimit + MaxOver),
        away \in SUBSET (0..MaxOver)}

\* the reply of an HTTP route
Reply(route, request, status, body) ==
    [route |-> route, request |-> request, status |-> status, body |-> body]

\* POST /direct_room; me: the session's username, other: the posted field
direct_room(me, other) ==
    LET request == [me |-> me, other |-> other] IN
    /\ response' =
            IF me = None THEN Reply("direct_room", request, 401, None)
            ELSE IF ~Truthy(other) THEN Reply("direct_room", request, 400, None)
            ELSE Reply("direct_room", request, 200,
                       Some(direct_room_name(me[1], other[1])))
    /\ UNCHANGED <<nextSid, connected, ACTIVE_USERS, USERNAME_TO_SID, rooms,
                   messages, emitted, last, registrar, tasks, running, inbox, racing>>

\* the paging route answering with one of its possible pages
api_messages_reply(room, lim, before) ==
    /\ \E page \in api_messages(messages, room, lim, before) :
           response' = Reply("api_messages",
                             [room |-> room, limit |-> lim, before |-> before],
                             200, [messages |-> page])
    /\ UNCHANGED <<nextSid, connected, ACTIVE_USERS, USERNAME_TO_SID, rooms,
                   messages, emitted, last, registrar, tasks, running, inbox, racing>>

\* the chat page; me: the session's username
chat_room_reply(me, room) ==
    /\ IF me = None
       THEN response' = Reply("chat_room", [me |-> me, room |-> room], 302, <<>>)
       ELSE \E page \in chat_room(messages, room) :
                response' = Reply("chat_room", [me |-> me, room |-> room], 200, page)
    /\ UNCHANGED <<nextSid, connected, ACTIVE_USERS, USERNAME_TO_SID, rooms,
                   messages, emitted, last, registrar, tasks, running, inbox, racing>>

----------------------------------------------------------------------------
\* the server starts on the messages table its database file holds
StartsWith(table) ==
    /\ nextSid = 1
    /\ connected = {}
    /\ ACTIVE_USERS = <<>>
    /\ USERNAME_TO_SID = <<>>
    /\ rooms = <<>>
    /\ messages = table
    /\ emitted = <<>>
    /\ last = [op |-> "init", sid |-> 0, data |-> NoData, saved |-> None,
               username |-> None, left |-> {}, again |-> FALSE]
    /\ registrar = [u \in {Blank, NameA, NameB} |-> 0]
    /\ response = NoResponse
    /\ tasks = [sid \in Sids |-> Idle]
    /\ running = 0
    /\ inbox = [sid \in Sids |-> <<>>]
    /\ racing = {}

\* a fresh database file
Init == StartsWith(<<>>)

PageInit == \E table \in PageTables : StartsWith(table)

ChatInit == \E table \in ChatTables : StartsWith(table)

\* a handler that returns before touching anything
Dropped(op, sid, data) ==
    /\ last' = Handled(op, sid, data)
    /\ emitted' = <<>>
    /\ UNCHANGED <<nextSid, connected, ACTIVE_USERS, USERNAME_TO_SID, rooms,
                   messages, registrar,
                   others>>

\* connect: the transport opens a session under a fresh sid; the handler only logs
on_connect ==
    /\ nextSid <= NumConns
    /\ nextSid' = nextSid + 1
    /\ connected' = connected \cup {nextSid}
    /\ last' = Handled("connect", nextSid, NoData)
    /\ emitted' = <<>>
    /\ UNCHANGED <<ACTIVE_USERS, USERNAME_TO_SID, rooms, messages, registrar,
                   others>>

on_join_app(sid, data) ==
    LET username == data.username IN
    IF ~Truthy(username)
    THEN Dropped("join_app", sid, data)
    ELSE /\ ACTIVE_USERS' = Put(ACTIVE_USERS, sid, username[1])
         /\ USERNAME_TO_SID' = Put(USERNAME_TO_SID, username[1], sid)
         /\ emitted' = <<broadcast_user_list(USERNAME_TO_SID', connected)>>
         /\ last' = Handled("join_app", sid, data)
         /\ registrar' = [registrar EXCEPT ![username[1]] = sid]
         /\ UNCHANGED <<nextSid, connected, rooms, messages,
                   others>>

\* disconnect: the transport of sid is closed; after the handler the server
\* takes the session out of its rooms
on_disconnect(sid) ==
    LET username == Get(ACTIVE_USERS, sid) IN
    /\ connected' = connected \ {sid}
    /\ ACTIVE_USERS' = unregister_forward(ACTIVE_USERS, sid)
    /\ USERNAME_TO_SID' = unregister_reverse(USERNAME_TO_SID, username, sid)
    /\ emitted' = <<broadcast_user_list(USERNAME_TO_SID', connected')>>
    /\ rooms' = leave_all(rooms, sid)
    /\ last' = [Handled("disconnect", sid, NoData) EXCEPT
                    !.username = username,
                    !.left = {r \in DOMAIN rooms : sid \in rooms[r]}]
    /\ UNCHANGED <<nextSid, messages, registrar,
                   others>>

\* Faulty variant: the user list is broadcast before the room's notice
room_notice_list_first(msg, to, u2s, conns) ==
    <<broadcast_user_list(u2s, conns),
      Emission("system_message", [msg |-> msg], to)>>

\* what join and leave emit, in order: the notice to the room, then the
\* user list to everyone
room_notice(msg, to, u2s, conns) ==
    <<Emission("system_message", [msg |-> msg], to),
      broadcast_user_list(u2s, conns)>>

on_join(sid, data) ==
    LET room == data.room
        username == data.username
    IN
    IF ~Truthy(room) \/ ~Truthy(username)
    THEN Dropped("join", sid, data)
    ELSE /\ rooms' = join_room(rooms, room[1], sid)
         /\ emitted' = room_notice(username[1] \o JoinedSuffix,
                                    members_of(rooms', room[1]),
                                    USERNAME_TO_SID, connected)
         /\ last' = Handled("join", sid, data)
         /\ UNCHANGED <<nextSid, connected, ACTIVE_USERS, USERNAME_TO_SID,
                        messages, registrar,
                   others>>

on_leave(sid, data) ==
    LET room == data.room
        username == data.username
    IN
    IF ~Truthy(room) \/ ~Truthy(username)
    THEN Dropped("leave", sid, data)
    ELSE /\ rooms' = leave_room(rooms, room[1], sid)
         /\ emitted' = room_notice(username[1] \o LeftSuffix,
                                    members_of(rooms', room[1]),
                                    USERNAME_TO_SID, connected)
         /\ last' = [Handled("leave", sid, data) EXCEPT
                         !.left = {r \in {room[1]} : sid \in members_of(rooms, r)}]
         /\ UNCHANGED <<nextSid, connected, ACTIVE_USERS, USERNAME_TO_SID,
                        messages, registrar,
                   others>>

\* ok: whether the store's commit succeeds
on_send_message(sid, data, ok) ==
    LET room == data.room
        text == send_text(data)
        sender == data.sender
    IN
    IF ~Truthy(room) \/ text = <<>> \/ ~Truthy(sender)
    THEN Dropped("send_message", sid, data)
    ELSE LET msg == Message(next_id(messages), room[1], sender[1], text) IN
         /\ messages' = db_commit(messages, msg, ok)
         /\ emitted' = send_emissions(ok, msg, rooms)
         /\ last' = [Handled("send_message", sid, data) EXCEPT !.saved = Some(ok)]
         /\ UNCHANGED <<nextSid, connected, ACTIVE_USERS, USERNAME_TO_SID,
                        rooms, registrar,
                   others>>

on_typing(sid, data) ==
    LET room == data.room
        sender == data.sender
        is_typing == BoolOf(data.typing)
    IN
    IF Truthy(room) /\ Truthy(sender)
    THEN /\ emitted' =
                <<Emission("typing", [sender |-> sender[1], typing |-> is_typing],
                           typing_recipients(rooms, room[1], sid))>>
         /\ last' = Handled("typing", sid, data)
         /\ UNCHANGED <<nextSid, connected, ACTIVE_USERS, USERNAME_TO_SID,
                        rooms, messages, registrar,
                   others>>
    ELSE Dropped("typing", sid, data)

----------------------------------------------------------------------------
\* The handlers statement by statement.  The server runs every handler in a
\* green thread of its own (async_mode="eventlet"): a handler keeps the
\* processor until it reaches a statement that may hand it over.

\* Faulty variant: every statement may hand over the processor
AtYield_everywhere(pc) == TRUE

\* the statements that may hand over the processor: the emit of
\* broadcast_user_list (line 82), the commit (line 245) and the emit
\* (line 258) of on_send_message
AtYield(pc) == pc \in {"l82", "l245", "l258"}

\* sid may execute its next statement
MayRun(sid) == running \in {0, sid}

\* who holds the processor after sid executed the statement pc
After(sid, pc) == IF AtYield(pc) THEN 0 ELSE sid

\* lines 182-185 of on_join_app, run when the server starts the handler
join_app_l182(sid, data) ==
    /\ running = 0
    /\ tasks[sid] = Idle
    /\ IF ~Truthy(data.username)
       THEN /\ last' = Handled("join_app", sid, data)
            /\ emitted' = <<>>
            /\ UNCHANGED <<tasks, running>>
       ELSE /\ tasks' = [tasks EXCEPT ![sid] =
                             Task("join_app", "l186", data, data.username, None)]
            /\ running' = After(sid, "l182")
            /\ UNCHANGED <<last, emitted>>
    /\ UNCHANGED <<nextSid, connected, ACTIVE_USERS, USERNAME_TO_SID, rooms,
                   messages, registrar, response, inbox, racing>>

\* ACTIVE_USERS[sid] = username
join_app_l186(sid) ==
    /\ MayRun(sid)
    /\ tasks[sid].op = "join_app" /\ tasks[sid].pc = "l186"
    /\ ACTIVE_USERS' = Put(ACTIVE_USERS, sid, tasks[sid].username[1])
    /\ tasks' = [tasks EXCEPT ![sid].pc = "l187"]
    /\ running' = After(sid, "l186")
    /\ UNCHANGED <<nextSid, connected, USERNAME_TO_SID, rooms, messages, emitted,
                   last, registrar, response, inbox, racing>>

\* USERNAME_TO_SID[username] = sid
join_app_l187(sid) ==
    /\ MayRun(sid)
    /\ tasks[sid].op = "join_app" /\ tasks[sid].pc = "l187"
    /\ USERNAME_TO_SID' = Put(USERNAME_TO_SID, tasks[sid].username[1], sid)
    /\ registrar' = [registrar EXCEPT ![tasks[sid].username[1]] = sid]
    /\ tasks' = [tasks EXCEPT ![sid].pc = "l81"]
    /\ running' = After(sid, "l187")
    /\ UNCHANGED <<nextSid, connected, ACTIVE_USERS, rooms, messages, emitted,
                   last, response, inbox, racing>>

\* broadcast_user_list: users = sorted(list(USERNAME_TO_SID.keys()))
broadcast_l81(sid) ==
    /\ MayRun(sid)
    /\ tasks[sid].pc = "l81"
    /\ tasks' = [tasks EXCEPT ![sid].pc = "l82",
                              ![sid].local = Some(sorted(DOMAIN USERNAME_TO_SID))]
    /\ running' = After(sid, "l81")
    /\ UNCHANGED <<nextSid, connected, ACTIVE_USERS, USERNAME_TO_SID, rooms,
                   messages, emitted, last, registrar, response, inbox, racing>>

\* broadcast_user_list: socketio.emit("user_list", {"users": users})
broadcast_l82(sid) ==
    /\ MayRun(sid)
    /\ tasks[sid].pc = "l82"
    /\ emitted' = <<Emission("user_list", [users |-> tasks[sid].local[1]], connected)>>
    /\ tasks' = [tasks EXCEPT ![sid].pc = "return"]
    /\ running' = After(sid, "l82")
    /\ UNCHANGED <<nextSid, connected, ACTIVE_USERS, USERNAME_TO_SID, rooms,
                   messages, last, registrar, response, inbox, racing>>

\* on_join_app logs and returns
join_app_return(sid) ==
    /\ MayRun(sid)
    /\ tasks[sid].op = "join_app" /\ tasks[sid].pc = "return"
    /\ last' = Handled("join_app", sid, tasks[sid].data)
    /\ tasks' = [tasks EXCEPT ![sid] = Idle]
    /\ running' = 0
    /\ UNCHANGED <<nextSid, connected, ACTIVE_USERS, USERNAME_TO_SID, rooms,
                   messages, emitted, registrar, response, inbox, racing>>

\* the transport of sid is closed and the server starts on_disconnect
disconnect_l194(sid) ==
    /\ running = 0
    /\ tasks[sid] = Idle
    /\ connected' = connected \ {sid}
    /\ tasks' = [tasks EXCEPT ![sid] = Task("disconnect", "l195", NoData, None, None)]
    /\ running' = After(sid, "l194")
    /\ UNCHANGED <<nextSid, ACTIVE_USERS, USERNAME_TO_SID, rooms, messages,
                   emitted, last, registrar, response, inbox, racing>>

\* username = ACTIVE_USERS.pop(sid, None)
disconnect_l195(sid) ==
    /\ MayRun(sid)
    /\ tasks[sid].op = "disconnect" /\ tasks[sid].pc = "l195"
    /\ ACTIVE_USERS' = unregister_forward(ACTIVE_USERS, sid)
    /\ tasks' = [tasks EXCEPT ![sid].pc = "l196",
                              ![sid].username = Get(ACTIVE_USERS, sid)]
    /\ running' = After(sid, "l195")
    /\ UNCHANGED <<nextSid, connected, USERNAME_TO_SID, rooms, messages, emitted,
                   last, registrar, response, inbox, racing>>

\* if username and USERNAME_TO_SID.get(username) == sid: USERNAME_TO_SID.pop(...)
disconnect_l196(sid) ==
    /\ MayRun(sid)
    /\ tasks[sid].op = "disconnect" /\ tasks[sid].pc = "l196"
    /\ USERNAME_TO_SID' = unregister_reverse(USERNAME_TO_SID, tasks[sid].username, sid)
    /\ tasks' = [tasks EXCEPT ![sid].pc = "l81"]
    /\ running' = After(sid, "l196")
    /\ UNCHANGED <<nextSid, connected, ACTIVE_USERS, rooms, messages, emitted,
                   last, registrar, response, inbox, racing>>

\* on_disconnect logs and returns; the server takes the session out of its rooms
disconnect_return(sid) ==
    /\ MayRun(sid)
    /\ tasks[sid].op = "disconnect" /\ tasks[sid].pc = "return"
    /\ rooms' = leave_all(rooms, sid)
    /\ last' = [Handled("disconnect", sid, NoData) EXCEPT
                    !.username = tasks[sid].username,
                    !.left = {r \in DOMAIN rooms : sid \in rooms[r]}]
    /\ tasks' = [tasks EXCEPT ![sid] = Idle]
    /\ running' = 0
    /\ UNCHANGED <<nextSid, connected, ACTIVE_USERS, USERNAME_TO_SID, messages,
                   emitted, registrar, response, inbox, racing>>

\* lines 236-240 of on_send_message, run when the server starts the handler
send_message_l236(sid, data) ==
    /\ running = 0
    /\ tasks[sid] = Idle
    /\ IF ~Truthy(data.room) \/ send_text(data) = <<>> \/ ~Truthy(data.sender)
       THEN /\ last' = Handled("send_message", sid, data)
            /\ emitted' = <<>>
            /\ UNCHANGED <<tasks, running>>
       ELSE /\ tasks' = [tasks EXCEPT ![sid] =
                             Task("send_message", "l245", data, None, None)]
            /\ running' = After(sid, "l236")
            /\ UNCHANGED <<last, emitted>>
    /\ UNCHANGED <<nextSid, connected, ACTIVE_USERS, USERNAME_TO_SID, rooms,
                   messages, registrar, response, inbox, racing>>

\* the ids committed by handlers that have not emitted yet
committed_unsent == {tasks[u].local[1].id : u \in {x \in Sids : tasks[x].pc = "l258"}}

\* lines 243-249: the row is added and committed; ok: whether the commit succeeds
send_message_l245(sid, ok) ==
    LET data == tasks[sid].data
        msg == Message(next_id(messages), data.room[1], data.sender[1], send_text(data))
    IN
    /\ MayRun(sid)
    /\ tasks[sid].op = "send_message" /\ tasks[sid].pc = "l245"
    /\ messages' = db_commit(messages, msg, ok)
    /\ IF ok
       THEN /\ tasks' = [tasks EXCEPT ![sid].pc = "l258", ![sid].local = Some(msg)]
            /\ racing' = racing \cup {<<m1, msg.id>> : m1 \in committed_unsent}
            /\ UNCHANGED <<last, emitted>>
       ELSE /\ tasks' = [tasks EXCEPT ![sid] = Idle]
            /\ last' = [Handled("send_message", sid, data) EXCEPT !.saved = Some(FALSE)]
            /\ emitted' = <<>>
            /\ UNCHANGED racing
    /\ running' = IF ok THEN After(sid, "l245") ELSE 0
    /\ UNCHANGED <<nextSid, connected, ACTIVE_USERS, USERNAME_TO_SID, rooms,
                   registrar, response, inbox>>

\* Faulty variant: a connection's newest event is put ahead of its earlier ones
deliver_newest_first(box, to, id) ==
    [c \in DOMAIN box |-> IF c \in to THEN <<id>> \o box[c] ELSE box[c]]

\* the connections of `to` receive the event after those they received before
deliver(box, to, id) ==
    [c \in DOMAIN box |-> IF c \in to THEN Append(box[c], id) ELSE box[c]]

\* lines 250-258: socketio.emit("new_message", payload, room=room), then return
send_message_l258(sid) ==
    LET msg == tasks[sid].local[1] IN
    /\ MayRun(sid)
    /\ tasks[sid].op = "send_message" /\ tasks[sid].pc = "l258"
    /\ emitted' = send_emissions(TRUE, msg, rooms)
    /\ inbox' = deliver(inbox, members_of(rooms, msg.room), msg.id)
    /\ last' = [Handled("send_message", sid, tasks[sid].data) EXCEPT
                    !.saved = Some(TRUE)]
    /\ tasks' = [tasks EXCEPT ![sid] = Idle]
    /\ running' = 0
    /\ UNCHANGED <<nextSid, connected, ACTIVE_USERS, USERNAME_TO_SID, rooms,
                   messages, registrar, response, racing>>

----------------------------------------------------------------------------
Connect == on_connect

Disconnect == \E sid \in connected : on_disconnect(sid)

\* join_app with any of the usernames
JoinApp ==
    \E sid \in connected, username \in UsernameInputs :
        on_join_app(sid, [username |-> username])

\* join_app as the page sends it: the one logged-in name
JoinAppNamed ==
    \E sid \in connected : on_join_app(sid, [username |-> Some(NameA)])

Join == \E sid \in connected, data \in RoomPayloads : on_join(sid, data)

Leave == \E sid \in connected, data \in RoomPayloads : on_leave(sid, data)

\* join and leave of the one room "r"
JoinNamed ==
    \E sid \in connected :
        on_join(sid, [room |-> Some(RoomR), username |-> Some(NameA)])

LeaveNamed ==
    \E sid \in connected :
        on_leave(sid, [room |-> Some(RoomR), username |-> Some(NameA)])

SendMessage ==
    /\ Len(messages) < MaxMsgs
    /\ \E sid \in connected, data \in SendPayloads, ok \in BOOLEAN :
            on_send_message(sid, data, ok)

Typing == \E sid \in connected, data \in TypingPayloads : on_typing(sid, data)

\* join, leave and typing with a required field missing or empty
JoinMalformed ==
    \E sid \in connected, data \in RoomPayloads :
        /\ Absent(data.room) \/ Absent(data.username)
        /\ on_join(sid, data)

LeaveMalformed ==
    \E sid \in connected, data \in RoomPayloads :
        /\ Absent(data.room) \/ Absent(data.username)
        /\ on_leave(sid, data)

TypingMalformed ==
    \E sid \in connected, data \in TypingPayloads :
        /\ Absent(data.room) \/ Absent(data.sender)
        /\ on_typing(sid, data)

\* send_message with a required field missing or empty
SendMalformed ==
    \E sid \in connected, data \in SendPayloads :
        /\ Absent(data.room) \/ Absent(data.text) \/ Absent(data.sender)
        /\ on_send_message(sid, data, TRUE)

\* send_message as the page sends it, to the one room "r"
SendNamed ==
    /\ Len(messages) < MaxMsgs
    /\ \E sid \in connected :
            on_send_message(sid, [room |-> Some(RoomR), text |-> Some(TextPadded),
                                  sender |-> Some(NameA)], TRUE)

\* a logged-in or anonymous client asks for the room it shares with another user
DirectRoom ==
    \E me \in Opt(DmNames), other \in Opt(DmNames \cup {<<>>}) :
        direct_room(me, other)

ApiMessages ==
    \E room \in {RoomR, RoomU}, lim \in LimitInputs, before \in BeforeInputs :
        api_messages_reply(room, lim, before)

ChatRoom ==
    \E me \in Opt({NameA}), room \in {RoomR, RoomS} :
        chat_room_reply(me, room)

\* a handler that runs in one piece starts when no handler holds the processor
Accept == running = 0 /\ on_connect

JoinRoom == running = 0 /\ JoinNamed

\* presence handlers, one statement at a time
JoinAppStart ==
    \E sid \in connected, username \in {None, Some(NameA), Some(NameB)} :
        join_app_l182(sid, [username |-> username])

JoinAppStep ==
    \E sid \in Sids : join_app_l186(sid) \/ join_app_l187(sid) \/ join_app_return(sid)

BroadcastStep == \E sid \in Sids : broadcast_l81(sid) \/ broadcast_l82(sid)

DisconnectStart == \E sid \in connected : disconnect_l194(sid)

DisconnectStep ==
    \E sid \in Sids :
        disconnect_l195(sid) \/ disconnect_l196(sid) \/ disconnect_return(sid)

\* send handlers, one statement at a time; at most MaxMsgs rows are written
SendStart ==
    /\ Len(messages) + Cardinality({sid \in Sids : tasks[sid].pc = "l245"}) < MaxMsgs
    /\ \E sid \in connected :
           send_message_l236(sid, [room |-> Some(RoomR), text |-> Some(TextPadded),
                                   sender |-> Some(NameA)])

SendCommit == \E sid \in Sids, ok \in BOOLEAN : send_message_l245(sid, ok)

SendEmit == \E sid \in Sids : send_message_l258(sid)

\* Rooms: the handlers that read or change room membership
Next ==
    \/ Connect
    \/ Disconnect
    \/ Join
    \/ Leave
    \/ Typing

Spec == Init /\ [][Next]_vars

\* Presence: every handler that touches the presence maps or closes a session,
\* with every username, and one room for membership
PresenceNext ==
    \/ Connect
    \/ Disconnect
    \/ JoinApp
    \/ JoinNamed
    \/ LeaveNamed

PresenceSpec == Init /\ [][PresenceNext]_vars

\* Messaging: send_message against presence and membership that are in use
MessagingNext ==
    \/ Connect
    \/ Disconnect
    \/ JoinAppNamed
    \/ JoinNamed
    \/ SendMessage

MessagingSpec == Init /\ [][MessagingNext]_vars

\* Validation: malformed join, leave, typing and send_message events against
\* presence, membership and a messages table that are in use
ValidationNext ==
    \/ Connect
    \/ JoinAppNamed
    \/ JoinNamed
    \/ SendNamed
    \/ SendMalformed
    \/ JoinMalformed
    \/ LeaveMalformed
    \/ TypingMalformed

ValidationSpec == Init /\ [][ValidationNext]_vars

\* Direct rooms: the naming route alone
DmNext == DirectRoom

DmSpec == Init /\ [][DmNext]_vars

\* Presence under concurrency: join_app and disconnect handlers of several
\* connections, interleaved where the scheduler allows
PresenceRaceNext ==
    \/ Accept
    \/ JoinAppStart
    \/ JoinAppStep
    \/ BroadcastStep
    \/ DisconnectStart
    \/ DisconnectStep

PresenceRaceSpec == Init /\ [][PresenceRaceNext]_vars

\* Sending under concurrency: send_message handlers of several connections
SendRaceNext ==
    \/ Accept
    \/ JoinRoom
    \/ SendStart
    \/ SendCommit
    \/ SendEmit

SendRaceSpec == Init /\ [][SendRaceNext]_vars

\* Paging: the paging route over the tables the database file may hold
PageNext == ApiMessages

PageSpec == PageInit /\ [][PageNext]_vars

\* Chat page: the chat route over tables around its limit
ChatNext == ChatRoom

ChatSpec == ChatInit /\ [][ChatNext]_vars

----------------------------------------------------------------------------
\* Vocabulary of the properties

\* sessions that were opened and have been closed
Closed == (1..(nextSid - 1)) \ connected

\* c is a member of room in the room table rs
MemberIn(rs, c, room) == room \in DOMAIN rs /\ c \in rs[room]

\* c is a member of room
InRoom(c, room) == MemberIn(rooms, c, room)

\* the handled event is a well-formed send_message
ValidSend(e) ==
    /\ e.op = "send_message"
    /\ Truthy(e.data.room)
    /\ strip(OrEmpty(e.data.text)) # <<>>
    /\ Truthy(e.data.sender)

\* the handled event is a well-formed join, resp. leave
ValidRoomEvent(e, op) ==
    e.op = op /\ Truthy(e.data.room) /\ Truthy(e.data.username)

----------------------------------------------------------------------------
\* C1: once a session that registered username U has disconnected, U is no
\* longer among the keys of USERNAME_TO_SID (the user_list), unless another
\* session registered U after it -- whatever the session sent in between,
\* further join_app events with other usernames included.
C1_UnregisterRemovesUsername ==
    \A u \in DOMAIN registrar :
        registrar[u] \in Closed => u \notin DOMAIN USERNAME_TO_SID

\* C2: when session C1 disconnects while the reverse entry of a username
\* names another session C2, that entry stays and still names C2; the
\* disconnect removes C1's forward entry and nothing else of the forward map.
C2_LastRegistrationWins ==
    [][\A c \in connected :
        (last'.op = "disconnect" /\ last'.sid = c) =>
            /\ \A u \in DOMAIN USERNAME_TO_SID :
                  USERNAME_TO_SID[u] # c =>
                      /\ u \in DOMAIN USERNAME_TO_SID'
                      /\ USERNAME_TO_SID'[u] = USERNAME_TO_SID[u]
            /\ DOMAIN ACTIVE_USERS' = DOMAIN ACTIVE_USERS \ {c}
            /\ \A s \in DOMAIN ACTIVE_USERS' : ACTIVE_USERS'[s] = ACTIVE_USERS[s]
      ]_vars

\* C2 witness: a session registered under U has just disconnected while U's
\* reverse entry names another, still connected session
C2_Witness ==
    /\ last.op = "disconnect"
    /\ last.username # None
    /\ last.username[1] \in DOMAIN USERNAME_TO_SID
    /\ USERNAME_TO_SID[last.username[1]] # last.sid
    /\ USERNAME_TO_SID[last.username[1]] \in connected
    /\ last.sid \notin DOMAIN ACTIVE_USERS

\* C3: a well-formed send_message whose commit succeeds appends exactly one
\* row, with an id above every id assigned before and the room, sender and
\* trimmed text of the event, and emits exactly one new_message carrying that
\* row to exactly the members of the room.
C3_SendBroadcastsToRoom ==
    [][(ValidSend(last') /\ last'.saved = Some(TRUE)) =>
        /\ Len(messages') = Len(messages) + 1
        /\ SubSeq(messages', 1, Len(messages)) = messages
        /\ LET m == messages'[Len(messages')]
               d == last'.data
           IN  /\ \A i \in 1..Len(messages) : m.id > messages[i].id
               /\ m.room = d.room[1]
               /\ m.sender = d.sender[1]
               /\ m.text = strip(d.text[1])
               /\ Len(emitted') = 1
               /\ emitted'[1].event = "new_message"
               /\ emitted'[1].payload = m
               /\ emitted'[1].to = {c \in Sids : MemberIn(rooms', c, d.room[1])}
      ]_vars

\* C3 witness: the second message was saved and went to a member of its room
\* while another open session, not a member, got nothing
C3_Witness ==
    /\ ValidSend(last)
    /\ last.saved = Some(TRUE)
    /\ Len(messages) = 2
    /\ Len(emitted) = 1
    /\ emitted[1].to # {}
    /\ connected \ emitted[1].to # {}

\* C4: a send_message whose commit fails emits nothing to anybody, leaves the
\* messages table as it was, and leaves both presence maps and the room
\* table as they were.
C4_FailedSaveIsDropped ==
    [][(last'.op = "send_message" /\ last'.saved = Some(FALSE)) =>
        /\ emitted' = <<>>
        /\ messages' = messages
        /\ ACTIVE_USERS' = ACTIVE_USERS
        /\ USERNAME_TO_SID' = USERNAME_TO_SID
        /\ rooms' = rooms
      ]_vars

\* C4 witness: the commit failed for a message to a room that has members,
\* with presence registered
C4_Witness ==
    /\ last.op = "send_message"
    /\ last.saved = Some(FALSE)
    /\ \E c \in connected : InRoom(c, last.data.room[1])
    /\ DOMAIN ACTIVE_USERS # {}
    /\ DOMAIN USERNAME_TO_SID # {}

\* C5: a send_message whose text is missing, empty or only whitespace never
\* reaches the store (the table is unchanged) and emits nothing.
C5_BlankTextIsDropped ==
    [][(last'.op = "send_message" /\ strip(OrEmpty(last'.data.text)) = <<>>) =>
        /\ last'.saved = None
        /\ messages' = messages
        /\ emitted' = <<>>
      ]_vars

\* C5 witness: a send_message with a whitespace-only text, otherwise well
\* formed, to a room that has members
C5_Witness ==
    /\ last.op = "send_message"
    /\ last.data.text = Some(Blank)
    /\ Truthy(last.data.room)
    /\ Truthy(last.data.sender)
    /\ \E c \in connected : InRoom(c, last.data.room[1])

\* C6: a session that has disconnected is a member of no room, has no
\* forward presence entry, and is among the recipients of no room event.
C6_ClosedSessionIsGone ==
    \A c \in Closed :
        /\ c \notin DOMAIN ACTIVE_USERS
        /\ \A r \in DOMAIN rooms : c \notin rooms[r]
        /\ \A i \in 1..Len(emitted) :
              emitted[i].event # "user_list" => c \notin emitted[i].to

\* C6 witness: a registered session that was a member of a room has just
\* disconnected
C6_Witness ==
    /\ last.op = "disconnect"
    /\ last.username # None
    /\ last.left # {}
    /\ last.sid \in Closed

\* C7: a typing event with room and sender present goes, as one typing
\* event, to every member of the room other than the sending session, and
\* never to the sending session.
C7_TypingExcludesSender ==
    (last.op = "typing" /\ Truthy(last.data.room) /\ Truthy(last.data.sender)) =>
        /\ Len(emitted) = 1
        /\ emitted[1].event = "typing"
        /\ emitted[1].payload.sender = last.data.sender[1]
        /\ emitted[1].to =
              {c \in Sids : InRoom(c, last.data.room[1])} \ {last.sid}

\* C7 witness: a member of the room typed while another member was there
C7_Witness ==
    /\ last.op = "typing"
    /\ Truthy(last.data.room)
    /\ Truthy(last.data.sender)
    /\ InRoom(last.sid, last.data.room[1])
    /\ Len(emitted) = 1
    /\ emitted[1].to # {}

\* C8: after a well-formed join(R, C), C is a member of R; after a
\* well-formed leave(R, C), C is not; in both cases every other membership
\* (other sessions in R, any session in another room) is as it was.
C8_JoinThenLeave ==
    [][\A op \in {"join", "leave"} :
        ValidRoomEvent(last', op) =>
            LET R == last'.data.room[1]
                C == last'.sid
            IN  /\ MemberIn(rooms', C, R) = (op = "join")
                /\ \A c \in Sids, r \in DOMAIN rooms \cup DOMAIN rooms' :
                      (c # C \/ r # R) => (MemberIn(rooms', c, r) = InRoom(c, r))
      ]_vars

\* C8 witness: a session has just left a room it was a member of, while
\* another session stays in that room and the leaver stays in another room
C8_Witness ==
    /\ ValidRoomEvent(last, "leave")
    /\ last.left = {last.data.room[1]}
    /\ \E c \in connected \ {last.sid} : InRoom(c, last.data.room[1])
    /\ \E r \in DOMAIN rooms \ {last.data.room[1]} : InRoom(last.sid, r)

\* C9: a well-formed join(R, C) that directly follows a well-formed
\* join(R, C) leaves the room table as the first one left it.
C9_JoinIdempotent ==
    [][(/\ ValidRoomEvent(last, "join")
        /\ ValidRoomEvent(last', "join")
        /\ last'.sid = last.sid
        /\ last'.data.room = last.data.room) => rooms' = rooms
      ]_vars

\* C9 witness: the same session joined the same room twice in a row, next to
\* another member
C9_Witness ==
    /\ ValidRoomEvent(last, "join")
    /\ last.again
    /\ InRoom(last.sid, last.data.room[1])
    /\ Cardinality(rooms[last.data.room[1]]) = 2

\* C10: a join_app whose username is empty after trimming whitespace changes
\* neither presence map and emits no user_list.
C10_BlankUsernameIgnored ==
    [][(last'.op = "join_app" /\ strip(OrEmpty(last'.data.username)) = <<>>) =>
        /\ ACTIVE_USERS' = ACTIVE_USERS
        /\ USERNAME_TO_SID' = USERNAME_TO_SID
        /\ emitted' = <<>>
      ]_vars

\* C11: a join, leave, send_message or typing event with a required field
\* missing or empty changes neither presence map, nor the room table, nor
\* the messages table, and emits nothing.
C11_MalformedEventIsDropped ==
    [][(\/ /\ last'.op \in {"join", "leave"}
           /\ Absent(last'.data.room) \/ Absent(last'.data.username)
        \/ /\ last'.op = "send_message"
           /\ \/ Absent(last'.data.room)
              \/ Absent(last'.data.text)
              \/ Absent(last'.data.sender)
        \/ /\ last'.op = "typing"
           /\ Absent(last'.data.room) \/ Absent(last'.data.sender)) =>
        /\ ACTIVE_USERS' = ACTIVE_USERS
        /\ USERNAME_TO_SID' = USERNAME_TO_SID
        /\ rooms' = rooms
        /\ messages' = messages
        /\ emitted' = <<>>
      ]_vars

\* C11 witness: a member of a room sent a leave for it without a username,
\* with presence registered and a message stored
C11_Witness ==
    /\ last.op = "leave"
    /\ Absent(last.data.username)
    /\ Truthy(last.data.room)
    /\ InRoom(last.sid, last.data.room[1])
    /\ messages # <<>>
    /\ DOMAIN USERNAME_TO_SID # {}

\* C12: after a valid join or leave of room R, every member of R receives
\* the system_message of that handler invocation, and receives it before
\* the invocation's user_list.
C12_NoticeBeforeUserList ==
    (ValidRoomEvent(last, "join") \/ ValidRoomEvent(last, "leave")) =>
        \A c \in members_of(rooms, last.data.room[1]) :
            \E i \in DOMAIN emitted :
                /\ emitted[i].event = "system_message"
                /\ c \in emitted[i].to
                /\ \E j \in DOMAIN emitted :
                       emitted[j].event = "user_list" /\ c \in emitted[j].to
                /\ \A j \in DOMAIN emitted :
                       (emitted[j].event = "user_list" /\ c \in emitted[j].to) => i < j

\* C12 witness: a join after which the room has two members
C12_Witness ==
    /\ ValidRoomEvent(last, "join")
    /\ Cardinality(members_of(rooms, last.data.room[1])) = 2
    /\ Len(emitted) = 2

\* C15: once every connection that ever connected has disconnected, both
\* presence maps are empty and every room's member set is empty.
C15_AllClosedIsEmpty ==
    (nextSid > 1 /\ connected = {}) =>
        /\ DOMAIN ACTIVE_USERS = {}
        /\ DOMAIN USERNAME_TO_SID = {}
        /\ \A room \in {RoomR, RoomS} : members_of(rooms, room) = {}

\* C16: every username in USERNAME_TO_SID points to a sid whose
\* ACTIVE_USERS entry is that username.
C16_ReverseEntryHasForwardEntry ==
    \A u \in DOMAIN USERNAME_TO_SID :
        /\ USERNAME_TO_SID[u] \in DOMAIN ACTIVE_USERS
        /\ ACTIVE_USERS[USERNAME_TO_SID[u]] = u

\* the last request was a direct-room request that was answered with a name
NamedDirectRoom ==
    response.route = "direct_room" /\ response.status = 200

\* C14: the direct-message room name is the same whichever of the two
\* participants asks: the name for (a, b) equals the name for (b, a).
C14_DirectRoomSymmetric ==
    NamedDirectRoom =>
        LET a == response.request.me[1]
            b == response.request.other[1]
        IN  /\ response.body = Some(direct_room_name(b, a))
            /\ direct_room_name(a, b) = direct_room_name(b, a)

\* C14 witness: the asking user's name sorts after the other user's name
C14_Witness ==
    /\ NamedDirectRoom
    /\ StrLess(response.request.other[1], response.request.me[1])

\* C20: two different unordered pairs of usernames never get the same
\* direct-message room name.
C20_DirectRoomUnambiguous ==
    NamedDirectRoom =>
        \A a \in DmNames, b \in DmNames :
            Some(direct_room_name(a, b)) = response.body =>
                {a, b} = {response.request.me[1], response.request.other[1]}

\* the rows of the stored table that are in room and, when a bound is given,
\* older than the bound
Eligible(room, bound) ==
    {i \in DOMAIN messages :
        /\ messages[i].room = room
        /\ bound # None => messages[i].timestamp < bound[1]}

\* the smaller of two numbers
Min(a, b) == IF a < b THEN a ELSE b

\* C13: a page holds only messages of the requested room, at most limit of
\* them, oldest first; with a before timestamp all are strictly older than
\* it and they are the limit most recent such messages; without one they
\* are the limit most recent messages of the room; a room without messages
\* gives an empty page, never an error.
C13_PageIsMostRecent ==
    response.route = "api_messages" =>
        LET req == response.request
            page == response.body.messages
            n == IF req.limit = None THEN 50 ELSE int(req.limit[1])
            bound == IF req.before = None THEN None ELSE fromisoformat(req.before[1])
            at(i) == fromisoformat(page[i].timestamp)[1]
            shown == {page[i].id : i \in DOMAIN page}
            eligible == Eligible(req.room, bound)
        IN  /\ response.status = 200
            /\ \A i \in DOMAIN page :
                   /\ page[i].room = req.room
                   /\ \E k \in eligible : to_dict(messages[k]) = page[i]
                   /\ bound # None => at(i) < bound[1]
            /\ \A i \in DOMAIN page, j \in DOMAIN page :
                   i < j => at(i) <= at(j) /\ page[i].id # page[j].id
            /\ Len(page) = Min(n, Cardinality(eligible))
            /\ \A k \in eligible :
                   messages[k].id \notin shown =>
                       \A i \in DOMAIN page : messages[k].timestamp <= at(i)
            /\ Eligible(req.room, None) = {} => page = <<>>

\* C13 witness: a page cut by its limit, with a before that leaves out a
\* message of the room
C13_Witness ==
    /\ response.route = "api_messages"
    /\ response.request.before # None
    /\ fromisoformat(response.request.before[1]) # None
    /\ response.body.messages # <<>>
    /\ Cardinality(Eligible(response.request.room, None))
         > Cardinality(Eligible(response.request.room,
                                fromisoformat(response.request.before[1])))
    /\ Cardinality(Eligible(response.request.room,
                            fromisoformat(response.request.before[1])))
         > Len(response.body.messages)

\* C18: the chat page of a room shows the most recent messages of the room,
\* at most 500, oldest first; of more than 500 it shows the newest 500.
C18_ChatPageIsNewest ==
    (response.route = "chat_room" /\ response.status = 200) =>
        LET page == response.body
            mine == Eligible(response.request.room, None)
            shown == {page[i].id : i \in DOMAIN page}
        IN  /\ Len(page) = Min(500, Cardinality(mine))
            /\ \A i \in DOMAIN page :
                   /\ page[i].room = response.request.room
                   /\ i > 1 => page[i - 1].timestamp <= page[i].timestamp
            /\ \A k \in mine :
                   messages[k].id \notin shown =>
                       messages[k].timestamp <= page[1].timestamp

\* the handler of u has updated one presence map and not yet the other
HalfUpdated(u) ==
    \/ tasks[u].op = "join_app" /\ tasks[u].pc = "l187"
    \/ tasks[u].op = "disconnect" /\ tasks[u].pc = "l196"

\* C17: when the handlers of different connections interleave, no handler
\* executes a statement (reads or lists the presence maps) while another
\* handler's register or disconnect has updated only one of the two maps.
C17_PresenceUpdateAtomic ==
    [][\A t \in Sids :
           tasks'[t] # tasks[t] => \A u \in Sids \ {t} : ~HalfUpdated(u)
      ]_vars

\* C17 witness: a handler is between its two map updates while another
\* connection's handler is in flight, parked after its emit
C17_Witness ==
    \E t \in Sids, u \in Sids :
        /\ t # u
        /\ tasks[t].pc = "return"
        /\ HalfUpdated(u)

====
